---- MODULE Spec2Model ----
(***************************************************************************)
(* The Raft log core (type RaftLog) of bullfrog_tinykv: the in-memory      *)
(* suffix of log entries, the watermarks stabled / committed / applied,    *)
(* the compaction point snapIndex, and the operations on them.             *)
(*                                                                         *)
(* RaftLog values are records with the fields of the Go struct; every      *)
(* method is an operator over such a record, translated branch by branch.  *)
(* Methods that can end the process (log.Fatal, a Go runtime panic) return *)
(* a record [log, status] with status "ok", "fatal" or "panic".            *)
(*                                                                         *)
(* Storage and the consensus loop that drives the log are not part of the  *)
(* source at hand; they are modelled from their documented interface: a    *)
(* Storage holds the contiguous persisted entries from its first index on  *)
(* and a hard state whose commit index lies within what it has kept; the   *)
(* driving loop appends batches that start above the commit index and      *)
(* leave no gap (Raft never rewrites a committed entry), persists the      *)
(* unstable entries, and compacts Storage only up to what is applied and   *)
(* persisted.                                                              *)
(***************************************************************************)
EXTENDS Integers, Sequences, FiniteSets, TLC

\* ------------------------------------------------------------------ bounds

\* Highest log index any entry takes.
MaxIndex == 3
\* Longest batch handed to AppendEntries.
MaxBatch == 2
\* Highest term an appended entry carries.
MaxTerm == 2
\* Highest first index of the Storage the log is constructed from.
MaxInitFirst == 2

\* Payloads of appended entries.
Data == {"b"}

\* ------------------------------------------------------------------ uint64

\* Indices are uint64 in the source.  Differences are taken modulo UintMod,
\* a scaled-down 2^64: any modulus far above MaxIndex orders the wrapped
\* values against slice lengths exactly as 2^64 does.
UintMod == 2 ^ 20

USub(a, b) == (a - b + UintMod) % UintMod

UAdd(a, b) == (a + b) % UintMod

max(a, b) == IF a > b THEN a ELSE b

min(a, b) == IF a > b THEN b ELSE a

\* ------------------------------------------------------------------ entries

\* pb.Entry: index, term and an opaque payload.
Entry(i, t, d) == [Index |-> i, Term |-> t, Data |-> d]

\* A batch of n entries with consecutive indices from start on.
Batch(start, n, t, d) == [k \in 1..n |-> Entry(start + k - 1, t, d)]

\* Go's s[lo:hi] on a slice whose capacity is its length: defined when
\* lo <= hi <= len(s), a runtime panic otherwise.
SliceOK(s, lo, hi) == lo <= hi /\ hi <= Len(s)

Slice(s, lo, hi) == SubSeq(s, lo + 1, hi)

\* ------------------------------------------------------------------ Storage

\* The persisted log: the entries first, first+1, ... and the hard state's
\* commit index.  first - 1 is the compaction point.
NoSnapshot == [Index |-> 0, Term |-> 0]

IsEmptySnap(sp) == sp.Index = 0 /\ sp.Term = 0

StorageInitialState(s) == [Commit |-> s.commit]

StorageFirstIndex(s) == [val |-> s.first, err |-> FALSE]

StorageLastIndex(s) == [val |-> s.first + Len(s.ents) - 1, err |-> FALSE]

\* Entries(lo, hi): the entries with lo <= index < hi; an error and no entries
\* when lo has been compacted away.
StorageEntries(s, lo, hi) ==
    IF lo < s.first
    THEN [ents |-> << >>, err |-> "ErrCompacted"]
    ELSE [ents |-> SelectSeq(s.ents, LAMBDA e : lo <= e.Index /\ e.Index < hi),
          err  |-> "nil"]

\* Term(i): the term of the persisted entry at index i; Unavailable when i is
\* not among the entries Storage holds.
StorageTerm(s, i) ==
    LET at == SelectSeq(s.ents, LAMBDA e : e.Index = i)
    IN  IF Len(at) = 0
        THEN [term |-> 0, err |-> "ErrUnavailable"]
        ELSE [term |-> at[1].Term, err |-> "nil"]

\* Append(ents): the persisted entries below ents[0].Index are kept, the rest
\* is replaced by ents.
StorageAppend(s, ents) ==
    [s EXCEPT !.ents = SelectSeq(s.ents, LAMBDA e : e.Index < ents[1].Index) \o ents]

\* Compact(ci): the entries up to and including ci are dropped.
StorageCompact(s, ci) ==
    [s EXCEPT !.first = ci + 1,
              !.ents  = SelectSeq(s.ents, LAMBDA e : e.Index > ci)]

\* The Storages a replica starts from.
InitStorages ==
    { [first  |-> f,
       ents   |-> Batch(f, n, 1, "a"),
       commit |-> c] :
        f \in 1..MaxInitFirst, n \in 0..MaxIndex, c \in 0..MaxIndex }

\* A Storage is consistent when its commit index lies between its compaction
\* point and its last entry.
ConsistentStorage(s) ==
    /\ s.first + Len(s.ents) - 1 < MaxIndex
    /\ s.first - 1 <= s.commit
    /\ s.commit <= s.first + Len(s.ents) - 1

\* ------------------------------------------------------------------ RaftLog

Ok(l) == [log |-> l, status |-> "ok"]

Fatal(l) == [log |-> l, status |-> "fatal"]

Panic(l) == [log |-> l, status |-> "panic"]

\* newLog starting the applied index at 0 whatever Storage has compacted.
newLog_appliedZero(s) ==
    [storage         |-> s,
     committed       |-> StorageInitialState(s).Commit,
     applied         |-> 0,
     stabled         |-> StorageLastIndex(s).val,
     entries         |-> StorageEntries(s, StorageFirstIndex(s).val,
                                        StorageLastIndex(s).val + 1).ents,
     pendingSnapshot |-> NoSnapshot,
     snapIndex       |-> StorageFirstIndex(s).val]

newLog(s) ==
    LET hs         == StorageInitialState(s)
        fi         == StorageFirstIndex(s)
        firstIndex == IF fi.err THEN 1 ELSE fi.val
        li         == StorageLastIndex(s)
        lastindex  == IF li.err THEN 0 ELSE li.val
        ents       == StorageEntries(s, firstIndex, lastindex + 1).ents
    IN  [storage         |-> s,
         committed       |-> hs.Commit,
         applied         |-> firstIndex - 1,
         stabled         |-> lastindex,
         entries         |-> ents,
         pendingSnapshot |-> NoSnapshot,
         snapIndex       |-> firstIndex]

\* maybeCompact dropping the entry at Storage's first index too.
maybeCompact_dropOneMore(l) ==
    IF StorageFirstIndex(l.storage).val > l.snapIndex
    THEN Ok([l EXCEPT
              !.entries = SelectSeq(l.entries, LAMBDA e :
                              e.Index > StorageFirstIndex(l.storage).val),
              !.snapIndex = StorageFirstIndex(l.storage).val])
    ELSE Ok(l)

\* maybeCompact forgetting to advance snapIndex.
maybeCompact_keepSnapIndex(l) ==
    LET index == StorageFirstIndex(l.storage).val
    IN  IF index > l.snapIndex
        THEN IF Len(l.entries) > 0
             THEN IF SliceOK(l.entries, index - l.snapIndex, Len(l.entries))
                  THEN Ok([l EXCEPT
                            !.entries = Slice(l.entries, index - l.snapIndex,
                                              Len(l.entries))])
                  ELSE Panic(l)
             ELSE Ok(l)
        ELSE Ok(l)

maybeCompact(l) ==
    LET index == StorageFirstIndex(l.storage).val
    IN  IF index > l.snapIndex
        THEN IF Len(l.entries) > 0
             THEN IF SliceOK(l.entries, index - l.snapIndex, Len(l.entries))
                  THEN Ok([l EXCEPT
                            !.entries = Slice(l.entries, index - l.snapIndex,
                                              Len(l.entries)),
                            !.snapIndex = index])
                  ELSE Panic(l)
             ELSE Ok([l EXCEPT !.snapIndex = index])
        ELSE Ok(l)

FirstIndex(l) ==
    IF Len(l.entries) = 0
    THEN USub(StorageFirstIndex(l.storage).val, 1)
    ELSE l.entries[1].Index

LastIndex(l) ==
    LET snapIndex == IF ~IsEmptySnap(l.pendingSnapshot)
                     THEN l.pendingSnapshot.Index
                     ELSE 0
    IN  IF Len(l.entries) = 0
        THEN max(StorageLastIndex(l.storage).val, snapIndex)
        ELSE max(l.entries[Len(l.entries)].Index, snapIndex)

\* unstableEntries slicing from the offset of stabled itself.
unstableEntries_fromStabled(l) ==
    IF Len(l.entries) > 0 /\ l.stabled >= FirstIndex(l)
    THEN Slice(l.entries, l.stabled - FirstIndex(l), Len(l.entries))
    ELSE l.entries

\* The uint64 comparison "< 0" of the source is never true.
unstableEntries(l) ==
    IF Len(l.entries) > 0
    THEN LET off == UAdd(USub(l.stabled, FirstIndex(l)), 1)
         IN  IF off > Len(l.entries)
             THEN << >>
             ELSE Slice(l.entries, off, Len(l.entries))
    ELSE << >>

\* nextEnts starting at the first resident entry, applied or not.
nextEnts_fromFirst(l) ==
    [ents   |-> SelectSeq(l.entries, LAMBDA e : e.Index <= l.committed),
     status |-> "ok"]

\* nextEnts slicing up to, and not including, the committed entry.
nextEnts_beforeCommitted(l) ==
    [ents   |-> SelectSeq(l.entries, LAMBDA e : l.applied < e.Index
                                               /\ e.Index < l.committed),
     status |-> "ok"]

\* The uint64 comparisons "< 0" and ">= 0" of the source are constant.  The
\* result is the entries returned, or a panic on a slice out of range.
nextEnts(l) ==
    IF Len(l.entries) > 0
    THEN LET to   == UAdd(USub(l.committed, FirstIndex(l)), 1)
             from == UAdd(USub(l.applied, FirstIndex(l)), 1)
         IN  IF from > LastIndex(l)
             THEN [ents |-> << >>, status |-> "ok"]
             ELSE IF to <= Len(l.entries)
                  THEN IF SliceOK(l.entries, from, to)
                       THEN [ents |-> Slice(l.entries, from, to), status |-> "ok"]
                       ELSE [ents |-> << >>, status |-> "panic"]
                  ELSE [ents |-> << >>, status |-> "ok"]
    ELSE [ents |-> << >>, status |-> "ok"]

\* Term answering Compacted at the index of the pending snapshot too.
Term_noSnapshotTerm(l, i) ==
    IF i > LastIndex(l)
    THEN [term |-> 0, err |-> "OutOfRange"]
    ELSE IF /\ i > l.stabled
            /\ Len(l.entries) > 0
            /\ i >= l.entries[1].Index
            /\ i - l.entries[1].Index < Len(l.entries)
         THEN [term |-> l.entries[i - l.entries[1].Index + 1].Term,
               err  |-> "nil"]
         ELSE IF /\ StorageTerm(l.storage, i).err = "ErrUnavailable"
                 /\ ~IsEmptySnap(l.pendingSnapshot)
              THEN [term |-> 0, err |-> "ErrCompacted"]
              ELSE StorageTerm(l.storage, i)

\* Term returns a term and an error ("nil" when there is none).
Term(l, i) ==
    LET lastindex == LastIndex(l)
        st        == StorageTerm(l.storage, i)
    IN  IF i > lastindex
        THEN [term |-> 0, err |-> "OutOfRange"]
        ELSE IF /\ i > l.stabled
                /\ Len(l.entries) > 0
                /\ i >= l.entries[1].Index
                /\ USub(i, l.entries[1].Index) < Len(l.entries)
             THEN [term |-> l.entries[USub(i, l.entries[1].Index) + 1].Term,
                   err  |-> "nil"]
             ELSE IF st.err = "ErrUnavailable" /\ ~IsEmptySnap(l.pendingSnapshot)
                  THEN IF i = l.pendingSnapshot.Index
                       THEN [term |-> l.pendingSnapshot.Term, err |-> "nil"]
                       ELSE [term |-> 0, err |-> "ErrCompacted"]
                  ELSE st

\* appliedTo checking only the lower end of [applied, committed].
appliedTo_noUpperCheck(l, i) ==
    IF i = 0
    THEN Ok(l)
    ELSE IF i < l.applied
         THEN Fatal(l)
         ELSE Ok([l EXCEPT !.applied = i])

\* appliedTo checking only the upper end of [applied, committed].
appliedTo_noLowerCheck(l, i) ==
    IF i = 0
    THEN Ok(l)
    ELSE IF l.committed < i
         THEN Fatal(l)
         ELSE Ok([l EXCEPT !.applied = i])

appliedTo(l, i) ==
    IF i = 0
    THEN Ok(l)
    ELSE IF l.committed < i \/ i < l.applied
         THEN Fatal(l)
         ELSE Ok([l EXCEPT !.applied = i])

\* findentries reading Storage up to hi instead of up to stabled.
findentries_readPastStabled(l, lo, hi) ==
    LET stable == IF lo <= l.stabled
                  THEN StorageEntries(l.storage, lo, hi).ents
                  ELSE << >>
    IN  IF hi > l.stabled + 1
        THEN IF Len(l.entries) = 0
             THEN [ents |-> << >>, status |-> "panic"]
             ELSE LET firstindex == l.entries[1].Index
                      from == USub(max(l.stabled + 1, lo), firstindex)
                      to   == USub(hi, firstindex)
                  IN  IF SliceOK(l.entries, from, to)
                      THEN [ents |-> stable \o Slice(l.entries, from, to),
                            status |-> "ok"]
                      ELSE [ents |-> << >>, status |-> "panic"]
        ELSE [ents |-> stable, status |-> "ok"]

\* findentries returns the entries found, or panics on a slice out of range.
\* The error of the Storage read is dropped by the source.
findentries(l, lo, hi) ==
    LET stable == IF lo <= l.stabled
                  THEN StorageEntries(l.storage, lo, min(hi, l.stabled + 1)).ents
                  ELSE << >>
    IN  IF hi > l.stabled + 1
        THEN IF Len(l.entries) = 0
             THEN [ents |-> << >>, status |-> "panic"]
             ELSE LET firstindex == l.entries[1].Index
                      from == USub(max(l.stabled + 1, lo), firstindex)
                      to   == USub(hi, firstindex)
                  IN  IF SliceOK(l.entries, from, to)
                      THEN [ents |-> stable \o Slice(l.entries, from, to),
                            status |-> "ok"]
                      ELSE [ents |-> << >>, status |-> "panic"]
        ELSE [ents |-> stable, status |-> "ok"]

\* AppendEntries leaving stabled where it was.
AppendEntries_keepStabled(l, ents) ==
    IF Len(ents) = 0
    THEN Panic(l)
    ELSE LET start == ents[1].Index
         IN  IF Len(l.entries) = 0
             THEN Ok([l EXCEPT !.entries = ents])
             ELSE IF start <= l.entries[1].Index
                  THEN Ok([l EXCEPT !.entries = ents])
                  ELSE IF SliceOK(l.entries, 0, start - l.entries[1].Index)
                       THEN Ok([l EXCEPT !.entries =
                                 Slice(l.entries, 0, start - l.entries[1].Index)
                                 \o ents])
                       ELSE Panic(l)

\* AppendEntries keeping the resident suffix when the batch starts at or
\* before its first entry.
AppendEntries_keepOnOverwrite(l, ents) ==
    IF Len(ents) = 0
    THEN Panic(l)
    ELSE LET start == ents[1].Index
             l1    == [l EXCEPT !.stabled = min(l.stabled, USub(start, 1))]
         IN  IF Len(l1.entries) = 0
             THEN Ok([l1 EXCEPT !.entries = ents])
             ELSE IF start <= l1.entries[1].Index
                  THEN Ok([l1 EXCEPT !.entries = l1.entries \o ents])
                  ELSE IF SliceOK(l1.entries, 0, start - l1.entries[1].Index)
                       THEN Ok([l1 EXCEPT !.entries =
                                 Slice(l1.entries, 0, start - l1.entries[1].Index)
                                 \o ents])
                       ELSE Panic(l)

\* AppendEntries appending without cutting the resident suffix at start.
AppendEntries_noTruncate(l, ents) ==
    IF Len(ents) = 0
    THEN Panic(l)
    ELSE LET start == ents[1].Index
             l1    == [l EXCEPT !.stabled = min(l.stabled, USub(start, 1))]
         IN  IF Len(l1.entries) = 0
             THEN Ok([l1 EXCEPT !.entries = ents])
             ELSE IF start <= l1.entries[1].Index
                  THEN Ok([l1 EXCEPT !.entries = ents])
                  ELSE Ok([l1 EXCEPT !.entries = l1.entries \o ents])

\* AppendEntries whose loop stops after the first entry of the batch.
AppendEntries_firstOnly(l, ents) ==
    IF Len(ents) = 0
    THEN Panic(l)
    ELSE LET start == ents[1].Index
             l1    == [l EXCEPT !.stabled = min(l.stabled, USub(start, 1))]
         IN  IF Len(l1.entries) = 0
             THEN Ok([l1 EXCEPT !.entries = << ents[1] >>])
             ELSE IF start <= l1.entries[1].Index
                  THEN Ok([l1 EXCEPT !.entries = << ents[1] >>])
                  ELSE IF SliceOK(l1.entries, 0, start - l1.entries[1].Index)
                       THEN Ok([l1 EXCEPT !.entries =
                                 Slice(l1.entries, 0, start - l1.entries[1].Index)
                                 \o << ents[1] >>])
                       ELSE Panic(l)

AppendEntries(l, ents) ==
    IF Len(ents) = 0
    THEN Panic(l)
    ELSE LET start == ents[1].Index
             l1    == [l EXCEPT !.stabled = min(l.stabled, USub(start, 1))]
         IN  IF Len(l1.entries) = 0
             THEN Ok([l1 EXCEPT !.entries = ents])
             ELSE IF start <= l1.entries[1].Index
                  THEN Ok([l1 EXCEPT !.entries = ents])
                  ELSE IF SliceOK(l1.entries, 0, start - l1.entries[1].Index)
                       THEN Ok([l1 EXCEPT !.entries =
                                 Slice(l1.entries, 0, start - l1.entries[1].Index)
                                 \o ents])
                       ELSE Panic(l)

\* commitTo letting commit run one past the last index.
commitTo_offByOne(l, commit) ==
    IF l.committed < commit
    THEN IF commit > LastIndex(l) + 1
         THEN l
         ELSE [l EXCEPT !.committed = commit]
    ELSE l

\* commitTo without the test that commit is above committed.
commitTo_regress(l, commit) ==
    IF commit > LastIndex(l)
    THEN l
    ELSE [l EXCEPT !.committed = commit]

commitTo(l, commit) ==
    IF l.committed < commit
    THEN IF commit > LastIndex(l)
         THEN l
         ELSE [l EXCEPT !.committed = commit]
    ELSE l

hasEntriesSince(l, index) ==
    LET firstIndex == StorageFirstIndex(l.storage).val
        offset     == max(UAdd(index, 1), firstIndex)
        high       == UAdd(l.committed, 1)
    IN  high > offset

\* entriesSince starting at index itself.
entriesSince_fromIndex(l, index) ==
    IF UAdd(l.committed, 1) > max(index, StorageFirstIndex(l.storage).val)
    THEN findentries(l, max(index, StorageFirstIndex(l.storage).val),
                     UAdd(l.committed, 1))
    ELSE [ents |-> << >>, status |-> "ok"]

entriesSince(l, index) ==
    LET firstindex == StorageFirstIndex(l.storage).val
        offset     == max(UAdd(index, 1), firstindex)
        high       == UAdd(l.committed, 1)
    IN  IF high > offset
        THEN findentries(l, offset, high)
        ELSE [ents |-> << >>, status |-> "ok"]

\* ------------------------------------------------------------------ state

VARIABLES
    storage,          \* the Storage the log was built on
    committed,        \* RaftLog.committed
    applied,          \* RaftLog.applied
    stabled,          \* RaftLog.stabled
    entries,          \* RaftLog.entries
    pendingSnapshot,  \* RaftLog.pendingSnapshot
    snapIndex,        \* RaftLog.snapIndex
    status,           \* "ok": the replica runs; "fatal" / "panic": it ended
    op                \* the operation that led to this state, with its arguments

vars == << storage, committed, applied, stabled, entries, pendingSnapshot,
           snapIndex, status, op >>

\* The RaftLog object as one record.
Self ==
    [storage         |-> storage,
     committed       |-> committed,
     applied         |-> applied,
     stabled         |-> stabled,
     entries         |-> entries,
     pendingSnapshot |-> pendingSnapshot,
     snapIndex       |-> snapIndex]

\* The next state holds the RaftLog l.
Becomes(l) ==
    /\ storage' = l.storage
    /\ committed' = l.committed
    /\ applied' = l.applied
    /\ stabled' = l.stabled
    /\ entries' = l.entries
    /\ pendingSnapshot' = l.pendingSnapshot
    /\ snapIndex' = l.snapIndex

Called(name, ents, arg) == [name |-> name, ents |-> ents, arg |-> arg]

Init ==
    \E s \in InitStorages :
        /\ ConsistentStorage(s)
        /\ LET l == newLog(s)
           IN  /\ storage = l.storage
               /\ committed = l.committed
               /\ applied = l.applied
               /\ stabled = l.stabled
               /\ entries = l.entries
               /\ pendingSnapshot = l.pendingSnapshot
               /\ snapIndex = l.snapIndex
        /\ status = "ok"
        /\ op = Called("newLog", << >>, 0)

\* The term of the entry at index i, resident or persisted; 0 when there is
\* none.
TermAt(l, i) ==
    LET mem == SelectSeq(l.entries, LAMBDA e : e.Index = i)
        sto == SelectSeq(l.storage.ents, LAMBDA e : e.Index = i)
    IN  IF Len(mem) > 0 THEN mem[1].Term
        ELSE IF Len(sto) > 0 THEN sto[1].Term
        ELSE 0

\* The batches the driving loop appends to the log l: consecutive indices,
\* starting above the commit index and at most one past the last index, in a
\* term not below the term of the entry they follow.
DriverBatches(l) ==
    { b \in { Batch(start, n, t, d) :
                start \in (l.committed + 1)..(LastIndex(l) + 1),
                n \in 1..MaxBatch, t \in 1..MaxTerm, d \in Data } :
        /\ b[Len(b)].Index <= MaxIndex
        /\ b[1].Term >= TermAt(l, b[1].Index - 1) }

DoAppendEntries ==
    /\ status = "ok"
    /\ \E ents \in DriverBatches(Self) :
        /\ LET r == AppendEntries(Self, ents)
           IN  /\ Becomes(r.log)
               /\ status' = r.status
        /\ op' = Called("AppendEntries", ents, 0)

DoCommitTo ==
    /\ status = "ok"
    /\ \E commit \in 0..(MaxIndex + 1) :
        /\ Becomes(commitTo(Self, commit))
        /\ op' = Called("commitTo", << >>, commit)
    /\ UNCHANGED status

DoAppliedTo ==
    /\ status = "ok"
    /\ \E i \in 0..(MaxIndex + 1) :
        /\ LET r == appliedTo(Self, i)
           IN  /\ Becomes(r.log)
               /\ status' = r.status
        /\ op' = Called("appliedTo", << >>, i)

DoMaybeCompact ==
    /\ status = "ok"
    /\ LET r == maybeCompact(Self)
       IN  /\ Becomes(r.log)
           /\ status' = r.status
    /\ op' = Called("maybeCompact", << >>, 0)

\* The driving loop persists the unstable entries and advances stabled to the
\* last of them; op records the entries handed to Storage.
Persist ==
    /\ status = "ok"
    /\ LET ents == unstableEntries(Self)
       IN  /\ Len(ents) > 0
           /\ storage' = StorageAppend(storage, ents)
           /\ stabled' = ents[Len(ents)].Index
    /\ op' = Called("persist", unstableEntries(Self), 0)
    /\ UNCHANGED << committed, applied, entries, pendingSnapshot, snapIndex, status >>

\* Storage drops its entries up to ci, an index already applied and persisted.
CompactStorage ==
    /\ status = "ok"
    /\ \E ci \in storage.first..MaxIndex :
        /\ ci <= applied
        /\ ci <= stabled
        /\ storage' = StorageCompact(storage, ci)
        /\ op' = Called("compact", << >>, ci)
    /\ UNCHANGED << committed, applied, stabled, entries, pendingSnapshot,
                    snapIndex, status >>

Next ==
    \/ DoAppendEntries
    \/ DoCommitTo
    \/ DoAppliedTo
    \/ DoMaybeCompact
    \/ Persist
    \/ CompactStorage

Spec == Init /\ [][Next]_vars

\* The log while a snapshot is pending.  The consensus loop hands the log a
\* snapshot newer than its committed index; until that snapshot is installed
\* in Storage the log is only queried.
ReceiveSnapshot ==
    /\ status = "ok"
    /\ IsEmptySnap(pendingSnapshot)
    /\ \E i \in (committed + 1)..MaxIndex, t \in 1..MaxTerm :
         /\ pendingSnapshot' = [Index |-> i, Term |-> t]
         /\ op' = Called("snapshot", << >>, i)
    /\ UNCHANGED <<storage, committed, applied, stabled, entries, snapIndex,
                   status>>

SnapNext ==
    \/ IsEmptySnap(pendingSnapshot) /\ Next
    \/ ReceiveSnapshot

SpecSnap == Init /\ [][SnapNext]_vars

\* The apply loop: the driving loop takes nextEnts(), hands the entries to the
\* state machine and calls appliedTo with the index of the last of them; op
\* records the entries handed out.  applied moves in no other way.
ApplyCommitted ==
    /\ status = "ok"
    /\ LET n == nextEnts(Self)
       IN  IF n.status = "ok"
           THEN /\ Len(n.ents) > 0
                /\ LET r == appliedTo(Self, n.ents[Len(n.ents)].Index)
                   IN  /\ Becomes(r.log)
                       /\ status' = r.status
                /\ op' = Called("apply", n.ents, n.ents[Len(n.ents)].Index)
           ELSE /\ Becomes(Self)
                /\ status' = n.status
                /\ op' = Called("apply", << >>, 0)

ApplyNext ==
    \/ DoAppendEntries
    \/ DoCommitTo
    \/ DoMaybeCompact
    \/ Persist
    \/ CompactStorage
    \/ ApplyCommitted

\* The driving loop does not stop taking the committed entries.
SpecApply == Init /\ [][ApplyNext]_vars /\ WF_vars(ApplyCommitted)

\* ------------------------------------------------------------------ claims

\* The indices of a sequence of entries.
Indices(es) == [k \in 1..Len(es) |-> es[k].Index]

\* es holds consecutive indices.
Contiguous(es) == \A k \in 1..Len(es) : es[k].Index = es[1].Index + k - 1

\* Everything of the RaftLog but the named field is the same in the next state.
LogUnchanged ==
    UNCHANGED << storage, committed, applied, stabled, entries, pendingSnapshot,
                 snapIndex >>

C4_TruncateAndAppend ==
    [][ ( /\ op'.name = "AppendEntries"
          /\ Len(entries) > 0
          /\ op'.ents[1].Index > entries[1].Index )
        => ( /\ status' = "ok"
             /\ entries' = SelectSeq(entries,
                               LAMBDA e : e.Index < op'.ents[1].Index) \o op'.ents
             /\ stabled' = min(stabled, op'.ents[1].Index - 1) ) ]_vars

\* AppendEntries kept a resident prefix, replaced persisted entries from
\* start on (Storage still holds the old ones) and lowered stabled to
\* start - 1.
C4_Witness ==
    /\ op.name = "AppendEntries"
    /\ status = "ok"
    /\ Len(entries) > Len(op.ents)
    /\ stabled = op.ents[1].Index - 1
    /\ StorageLastIndex(storage).val >= op.ents[1].Index
    /\ \E k \in 1..Len(storage.ents) :
         /\ storage.ents[k].Index = op.ents[1].Index
         /\ storage.ents[k].Term # op.ents[1].Term

\* C5: an AppendEntries whose batch starts at or before the first resident
\* entry leaves exactly the batch as the resident suffix: in every step that
\* appends such a batch, and for every batch of consecutive indices that
\* could be handed to AppendEntries in a reachable state, also one that
\* starts before the first resident entry.
C5_OverwriteInstallsBatch ==
    /\ [][ ( /\ op'.name = "AppendEntries"
             /\ Len(entries) > 0
             /\ op'.ents[1].Index <= entries[1].Index )
           => ( /\ status' = "ok"
                /\ entries' = op'.ents ) ]_vars
    /\ [] ( \A start \in 1..MaxIndex, n \in 1..MaxBatch, t \in 1..MaxTerm,
               d \in Data :
              (Len(entries) > 0 /\ start <= entries[1].Index)
                => LET r == AppendEntries(Self, Batch(start, n, t, d))
                   IN  /\ r.status = "ok"
                       /\ r.log.entries = Batch(start, n, t, d) )

\* AppendEntries replaced the whole resident suffix: the batch is all that is
\* resident, and Storage still holds the entry it replaced at start.
C5_Witness ==
    /\ op.name = "AppendEntries"
    /\ status = "ok"
    /\ entries = op.ents
    /\ entries[1].Index > 1
    /\ \E k \in 1..Len(storage.ents) :
         /\ storage.ents[k].Index = op.ents[1].Index
         /\ storage.ents[k].Term # op.ents[1].Term

\* C6: right after AppendEntries(batch), a second AppendEntries with the same
\* batch changes nothing.
C6_AppendIdempotent ==
    (op.name = "AppendEntries" /\ status = "ok")
        => AppendEntries(Self, op.ents) = Ok(Self)

\* AppendEntries has appended a batch of two behind a resident prefix.
C6_Witness ==
    /\ op.name = "AppendEntries"
    /\ status = "ok"
    /\ Len(op.ents) = 2
    /\ Len(entries) > Len(op.ents)
    /\ AppendEntries(Self, op.ents).log.entries = entries

\* C7: commitTo(c) changes nothing when c <= committed or c > LastIndex(),
\* and otherwise sets committed to c and nothing else; no step lowers
\* committed.
C7_CommitTo ==
    [][ /\ op'.name = "commitTo" =>
            /\ status' = status
            /\ IF op'.arg <= committed \/ op'.arg > LastIndex(Self)
               THEN LogUnchanged
               ELSE /\ committed' = op'.arg
                    /\ UNCHANGED << storage, applied, stabled, entries,
                                    pendingSnapshot, snapIndex >>
        /\ committed' >= committed ]_vars

\* commitTo has raised committed to the last index, past the applied index.
C7_Witness ==
    /\ op.name = "commitTo"
    /\ op.arg = committed
    /\ committed = LastIndex(Self)
    /\ committed > applied + 1
    /\ committed > storage.commit

\* C8: appliedTo(0) changes nothing; appliedTo(i) with i # 0 outside
\* [applied, committed] ends the process on the fatal path with applied as it
\* was; appliedTo(i) with applied <= i <= committed sets applied to i and
\* nothing else.
C8_AppliedTo ==
    [][ op'.name = "appliedTo" =>
          IF op'.arg = 0
          THEN LogUnchanged /\ status' = "ok"
          ELSE IF op'.arg < applied \/ op'.arg > committed
               THEN LogUnchanged /\ status' = "fatal"
               ELSE /\ applied' = op'.arg
                    /\ status' = "ok"
                    /\ UNCHANGED << storage, committed, stabled, entries,
                                    pendingSnapshot, snapIndex >> ]_vars

\* appliedTo was called with an index below applied and ended the process.
C8_Witness ==
    /\ op.name = "appliedTo"
    /\ status = "fatal"
    /\ op.arg # 0
    /\ op.arg < applied

\* The range [lo, hi) is non-empty and retained: not below Storage's first
\* index and not past the last index.
Retained(lo, hi) ==
    /\ lo < hi
    /\ StorageFirstIndex(storage).val <= lo
    /\ hi - 1 <= LastIndex(Self)

\* C9: over a retained range [lo, hi), findentries returns hi - lo entries
\* with the indices lo, lo + 1, ..., hi - 1 in this order, with no duplicate
\* and no gap where the Storage read meets the in-memory slice.
C9_FindEntriesRange ==
    \A lo \in 1..MaxIndex, hi \in 1..(MaxIndex + 1) :
        Retained(lo, hi) =>
            LET r == findentries(Self, lo, hi)
            IN  /\ r.status = "ok"
                /\ Indices(r.ents) = [k \in 1..(hi - lo) |-> lo + k - 1]

\* A retained range reaches from persisted entries across stabled into
\* entries that are only resident, while Storage still holds other entries
\* above stabled, and findentries returns one entry per index.
C9_Witness ==
    /\ status = "ok"
    /\ StorageLastIndex(storage).val > stabled
    /\ \E lo \in 1..MaxIndex, hi \in 1..(MaxIndex + 1) :
         /\ Retained(lo, hi)
         /\ lo <= stabled
         /\ hi > stabled + 1
         /\ Len(findentries(Self, lo, hi).ents) = hi - lo
         /\ findentries(Self, lo, hi).ents[hi - lo].Term > 1

\* C10: right after AppendEntries(batch), and after the driving loop has
\* persisted the appended entries, findentries over the index range of these
\* entries returns them unchanged: same indices, terms and payloads.
C10_RoundTrip ==
    (op.name \in {"AppendEntries", "persist"} /\ status = "ok")
        => LET r == findentries(Self, op.ents[1].Index,
                                op.ents[1].Index + Len(op.ents))
           IN  /\ r.status = "ok"
               /\ r.ents = op.ents

\* Entries appended in a later term have been persisted, two or more of them,
\* and are read back from Storage.
C10_Witness ==
    /\ op.name = "persist"
    /\ status = "ok"
    /\ Len(op.ents) >= 2
    /\ op.ents[Len(op.ents)].Term > 1
    /\ stabled = op.ents[Len(op.ents)].Index
    /\ findentries(Self, op.ents[1].Index, stabled + 1).ents = op.ents

\* C11: when the range given to findentries starts below Storage's first
\* index, so that the Storage read signals Compacted, findentries does not
\* return an ordinary list: the failure reaches the caller.
C11_CompactedPropagates ==
    \A lo \in 1..MaxIndex, hi \in 1..(MaxIndex + 1) :
        ( /\ lo < hi
          /\ lo <= stabled
          /\ StorageEntries(storage, lo, min(hi, stabled + 1)).err
                = "ErrCompacted" )
            => findentries(Self, lo, hi).status # "ok"

\* The entries of a log with the indices lo+1 .. hi, in index order.
Window(es, lo, hi) == SelectSeq(es, LAMBDA e : lo < e.Index /\ e.Index <= hi)

\* C12: right after newLog over a Storage holding the persisted entries
\* [f..l] with committed index c: FirstIndex() = f, LastIndex() = l,
\* applied = f - 1, stabled = l, committed = c, no snapshot is pending,
\* unstableEntries() is empty, and nextEnts() returns the entries f..c (all of
\* 1..5 for a Storage holding [1..5] with c = 5).
C12_NewLogState ==
    /\ (op.name = "newLog" /\ Len(storage.ents) > 0)
          => /\ status = "ok"
             /\ FirstIndex(Self) = storage.first
             /\ LastIndex(Self) = StorageLastIndex(storage).val
             /\ applied = storage.first - 1
             /\ stabled = StorageLastIndex(storage).val
             /\ committed = storage.commit
             /\ IsEmptySnap(pendingSnapshot)
             /\ unstableEntries(Self) = << >>
             /\ nextEnts(Self).status = "ok"
             /\ nextEnts(Self).ents
                   = Window(storage.ents, storage.first - 1, storage.commit)
    /\ LET l == newLog([first |-> 1, ents |-> Batch(1, 5, 1, "a"),
                        commit |-> 5])
       IN  /\ nextEnts(l).ents = Batch(1, 5, 1, "a")
           /\ unstableEntries(l) = << >>
           /\ FirstIndex(l) = 1 /\ LastIndex(l) = 5
           /\ l.applied = 0 /\ l.stabled = 5 /\ l.committed = 5

\* A log just built over a Storage with two entries, both committed, and
\* nextEnts hands out both.
C12_Witness ==
    /\ op.name = "newLog"
    /\ Len(storage.ents) = 2
    /\ committed = StorageLastIndex(storage).val
    /\ Len(nextEnts(Self).ents) = 2

C14_UnstableEntries ==
    status = "ok"
        => /\ unstableEntries(Self) = Window(entries, stabled, LastIndex(Self))
           /\ op.name = "AppendEntries"
                 => \A k \in 1..Len(op.ents) :
                       \E j \in 1..Len(unstableEntries(Self)) :
                           unstableEntries(Self)[j] = op.ents[k]

\* A batch of two entries that overwrites persisted entries has been
\* appended; the unstable entries are the batch.
C14_Witness ==
    /\ status = "ok"
    /\ op.name = "AppendEntries"
    /\ Len(op.ents) >= 2
    /\ op.ents[1].Index > entries[1].Index
    /\ StorageLastIndex(storage).val >= op.ents[1].Index
    /\ unstableEntries(Self) = op.ents

\* Term(i) asks Storage, and does not answer from the resident entries.
AsksStorage(l, i) ==
    /\ i <= LastIndex(l)
    /\ ~( /\ i > l.stabled
          /\ Len(l.entries) > 0
          /\ i >= l.entries[1].Index
          /\ i - l.entries[1].Index < Len(l.entries) )

\* C15: with no pending snapshot, Term(i) for i below Storage's first index,
\* which Storage reports as not retained, returns Compacted; and Term(i) for
\* i > LastIndex() returns OutOfRange.
C15_TermErrors ==
    (status = "ok" /\ IsEmptySnap(pendingSnapshot))
        => \A i \in 0..(MaxIndex + 1) :
              /\ ( /\ i < StorageFirstIndex(storage).val
                   /\ StorageTerm(storage, i).err = "ErrUnavailable" )
                    => Term(Self, i).err = "ErrCompacted"
              /\ i > LastIndex(Self) => Term(Self, i).err = "OutOfRange"

C19_StabledWithinLog ==
    status = "ok"
        => /\ stabled <= LastIndex(Self)
           /\ Len(entries) > 0
                => \A i \in (stabled + 1)..entries[Len(entries)].Index :
                      \E k \in 1..Len(entries) : entries[k].Index = i

\* AppendEntries has cut the log below persisted entries and the new last
\* index is below Storage's last index: stabled has moved down with the log.
C19_Witness ==
    /\ status = "ok"
    /\ op.name = "AppendEntries"
    /\ LastIndex(Self) < StorageLastIndex(storage).val
    /\ stabled < LastIndex(Self)
    /\ stabled + 1 = op.ents[1].Index

\* C20: when applied moves only by the apply loop (nextEnts, then appliedTo
\* with the index of the last entry returned), every delivery hands out the
\* indices applied + 1, applied + 2, ... up to the new applied index, so the
\* indices handed out are strictly increasing without a gap or a repeat; and
\* under weak fairness of the apply loop, whenever committed indices are not
\* yet delivered the loop eventually has delivered every index up to
\* committed (which never decreases), unless the process has ended.
C20_ApplyLoop ==
    /\ [][ (applied' # applied \/ (op'.name = "apply" /\ op' # op))
              => /\ op'.name = "apply"
                 /\ status' = "ok"
                 /\ Len(op'.ents) > 0
                 /\ Indices(op'.ents)
                       = [k \in 1..(applied' - applied) |-> applied + k]
                 /\ applied' <= committed ]_vars
    /\ (applied < committed) ~> (applied = committed \/ status # "ok")

\* Over a Storage that was never compacted the apply loop has delivered
\* entry 1 earlier and now delivers the entries after it, two or more, up to
\* committed.
C20_Witness ==
    /\ status = "ok"
    /\ op.name = "apply"
    /\ StorageFirstIndex(storage).val = 1
    /\ Len(op.ents) >= 2
    /\ op.ents[1].Index > 1
    /\ applied = committed
    /\ applied = op.ents[Len(op.ents)].Index

====
